---------------------------- MODULE Spec2Model ----------------------------
(***************************************************************************)
(* A model of nistats/hemodynamic_models.py: compute_regressor and the     *)
(* functions it calls (_sample_condition, _hrf_kernel, np.convolve,        *)
(* _resample_regressor, _orthogonalize, _regressor_names).                 *)
(*                                                                         *)
(* Numbers.  Times are integers (seconds); every quotient the code forms   *)
(* is kept as an exact fraction and compared by cross-multiplication, so   *)
(* the arithmetic is that of the code up to floating-point rounding.       *)
(* Arrays indexed by a grid position are functions on 0..N-1, as in        *)
(* Python; lists of events, kernels and names are sequences.               *)
(*                                                                         *)
(* Libraries.  The code is written against the numpy of its time:          *)
(* np.linspace(a, b, num) takes int(num) and returns an empty array for    *)
(* num <= 0; np.convolve raises ValueError for an empty operand;           *)
(* interp1d raises ValueError for fewer than two samples and for a         *)
(* requested point outside [x[0], x[-1]] (bounds_error defaults to True).  *)
(* The samples of the gamma kernels are values of scipy's gamma.pdf and    *)
(* are not computed: a kernel is the function that builds it and its       *)
(* length, and a column of the regressor matrix is the kernel it was       *)
(* convolved with, its length and the steps applied to it.  The boxcar     *)
(* kernels of 'fir' and the matrices of _orthogonalize are exact.          *)
(***************************************************************************)
EXTENDS Integers, Sequences, FiniteSets, TLC

VARIABLES
    pc,             \* the statement about to run
    call,           \* the arguments of the call in progress
    exp_condition,  \* the caller's (onsets, durations, amplitudes) arrays
    frame_times,    \* the caller's frame_times array
    tr,             \* compute_regressor: tr, a fraction
    hr_frame_times, \* _sample_condition: the high-resolution grid
    warned,         \* number of warnings emitted by warnings.warn
    regressor,      \* _sample_condition: regressor
    t_onset,        \* _sample_condition: t_onset
    t_offset,       \* _sample_condition: t_offset
    loop_i,         \* _sample_condition: i of the for loop (1-based)
    hkernel,        \* compute_regressor: hkernel
    conv_reg,       \* compute_regressor: conv_reg (one row per kernel)
    creg,           \* compute_regressor: creg (one column per kernel)
    reg_names,      \* compute_regressor: reg_names
    steps,          \* the pipeline steps that have run, in order
    result,         \* what the caller gets: nothing yet, a return, a raise
    X,              \* _orthogonalize: the matrix, changed in place
    orth            \* _orthogonalize called twice: inputs and progress

vars == <<pc, call, exp_condition, frame_times, tr, hr_frame_times, warned,
          regressor, t_onset, t_offset, loop_i, hkernel, conv_reg, creg,
          reg_names, steps, result, X, orth>>

---------------------------------------------------------------------------
\* Bounds of the model.

MaxScans == 2
MaxTR == 2
MaxOversampling == 2
MaxOnset == 5
MaxEarly == 2
MaxLate == 1
MaxDuration == 1
MaxDelay == 1
MaxEntry == 1

\* The matrices _orthogonalize is given: one to three rows (scans).
RowCounts == 1..3

\* A condition holds no event, one event or two: two are what it takes for
\* events to share a grid index.
EventCounts == 0..2

\* The amplitudes an event is given.
Amplitudes == {1, 2}

\* An identifier that is not one of the six models: the docstring of
\* compute_regressor lists it, _hrf_kernel does not know it.
UnknownModels == {"canonical_derivative"}

\* Program constants.
time_length == 32

\* The longest kernel list of _hrf_kernel ('spm_time_dispersion').
MaxKernels == 3

---------------------------------------------------------------------------
\* Arithmetic helpers.

Min2(a, b) == IF a <= b THEN a ELSE b

SetMax(S) == CHOOSE m \in S : \A s \in S : s <= m

SetMin(S) == CHOOSE m \in S : \A s \in S : m <= s

SeqRange(s) == {s[j] : j \in 1..Len(s)}

\* int(a / b) of Python for b > 0: truncation toward zero.
Trunc(a, b) == IF a >= 0 THEN a \div b ELSE -((-a) \div b)

RECURSIVE SumOver(_, _)
SumOver(S, f) ==
    IF S = {} THEN 0
    ELSE LET e == CHOOSE e \in S : TRUE IN f[e] + SumOver(S \ {e}, f)

---------------------------------------------------------------------------
\* Python exceptions: the class and the function whose statement raised it.

NoExc == [type |-> "None", where |-> "None"]

Exc(type, where) == [type |-> type, where |-> where]

NoResult == [status |-> "pending", matrix |-> <<>>, names |-> <<>>, exc |-> NoExc]

Raised(e) == [status |-> "raised", matrix |-> <<>>, names |-> <<>>, exc |-> e]

Returned(m, names) == [status |-> "returned", matrix |-> m, names |-> names, exc |-> NoExc]

---------------------------------------------------------------------------
\* np.linspace and the grid of _sample_condition.

\* A grid is np.linspace(S/D, E/D, N): N points from S/D to E/D inclusive.
EmptyGrid == [N |-> 0, S |-> 0, E |-> 0, D |-> 1]

\* n_hr of _sample_condition, as int(n_hr): with n = frame_times.size,
\* ((n-1)/(max-min) * (max*(1+1/(n-1)) - min - min_onset) * oversampling) + 1
\*   = ((max*n - (n-1)*(min+min_onset)) * oversampling) / (max-min) + 1.
n_hr(ft, oversampling, min_onset) ==
    LET n    == Len(ft)
        fmax == SetMax(SeqRange(ft))
        fmin == SetMin(SeqRange(ft))
        num  == (fmax * n - (n - 1) * (fmin + min_onset)) * oversampling
        den  == fmax - fmin
    IN  Trunc(num + den, den)

\* hr_frame_times: linspace(min + min_onset, max * (1 + 1/(n-1)), n_hr),
\* both ends over the common denominator n - 1.
HrGrid(ft, oversampling, min_onset) ==
    LET n    == Len(ft)
        fmax == SetMax(SeqRange(ft))
        fmin == SetMin(SeqRange(ft))
        N    == n_hr(ft, oversampling, min_onset)
    IN  IF N <= 0 THEN EmptyGrid
        ELSE [N |-> N, S |-> (fmin + min_onset) * (n - 1), E |-> fmax * n,
              D |-> n - 1]

\* hr_frame_times[k] as a fraction HrNum / HrDen (k from 0).
HrNum(g, k) == IF g.N = 1 THEN g.S ELSE g.S * (g.N - 1) + k * (g.E - g.S)

HrDen(g) == IF g.N = 1 THEN g.D ELSE g.D * (g.N - 1)

\* hr_frame_times[k] < t and hr_frame_times[k] > t for an integer time t.
HrLess(g, k, t) == HrNum(g, k) < t * HrDen(g)

HrGreater(g, k, t) == HrNum(g, k) > t * HrDen(g)

\* np.searchsorted(hr_frame_times, key), side 'left': numpy's binary search.
RECURSIVE Bisect(_, _, _, _)
Bisect(g, key, lo, hi) ==
    IF lo >= hi THEN lo
    ELSE LET mid == lo + ((hi - lo) \div 2)
         IN  IF HrLess(g, mid, key) THEN Bisect(g, key, mid + 1, hi)
             ELSE Bisect(g, key, lo, mid)

searchsorted(g, keys) == [e \in 1..Len(keys) |-> Bisect(g, keys[e], 0, g.N)]

\* np.minimum(indices, tmax - 1), one index.
ClampOff(idx, tmax) == idx

Clamp(idx, tmax) == Min2(idx, tmax - 1)

ClampAll(idxs, tmax) == [e \in 1..Len(idxs) |-> Clamp(idxs[e], tmax)]

---------------------------------------------------------------------------
\* Python's % on strings and the warning of _sample_condition.

\* 'text' % arg raises TypeError ("not all arguments converted") when arg
\* is not a tuple, not a mapping and the text holds no conversion; an
\* object with __getitem__ counts as a mapping and is never "left over".
PercentRaisesPlain(nConversions, argHasGetitem) == nConversions # 1

PercentRaises(nConversions, argHasGetitem) ==
    ~argHasGetitem /\ nConversions # 1

\* The message is '...%d in the' + (' experiment ... model' % (x)): % binds
\* tighter than +, so it applies to the second literal, which holds no
\* conversion; x = frame_times[0] + min_onset is a numpy scalar, and numpy
\* scalars define __getitem__.
WarnMessageRaises == PercentRaises(0, TRUE)

\* (onsets < frame_times[0] + min_onset).any()
EarlyOnset(cond, ft, min_onset) ==
    \E e \in 1..Len(cond.onsets) : cond.onsets[e] < ft[1] + min_onset

---------------------------------------------------------------------------
\* Indexing with an index array: regressor[idx] += sign * values.

\* A Python index is valid for an array of length N iff -N <= idx < N.
IndexOK(idx, N) == -N <= idx /\ idx < N

Wrap(idx, N) == IF idx < 0 THEN idx + N ELSE idx

AllIndexOK(idxs, N) == \A e \in 1..Len(idxs) : IndexOK(idxs[e], N)

\* a[idx] += v is a[idx] = a[idx] + v: the sums are formed from the old
\* values and assigned in order, so of several events with one index the
\* last alone is kept.
FancyAdd(arr, idxs, vals, sign) ==
    LET N == Cardinality(DOMAIN arr)
    IN  [k \in DOMAIN arr |->
            LET hits == {e \in 1..Len(idxs) : Wrap(idxs[e], N) = k}
            IN  IF hits = {} THEN arr[k]
                ELSE arr[k] + sign * vals[SetMax(hits)]]

\* np.cumsum: element k is the sum of the elements 0..k.
RECURSIVE PrefixSum(_, _)
PrefixSum(arr, k) == IF k < 0 THEN 0 ELSE arr[k] + PrefixSum(arr, k - 1)

cumsum(arr) == [k \in DOMAIN arr |-> PrefixSum(arr, k)]

\* onsets + durations: a new array; the operands are left as they are.
\* The record holds the caller's arrays after the statement and the sum.
OffsetTimesInPlace(cond) ==
    LET s == [e \in 1..Len(cond.onsets) |-> cond.onsets[e] + cond.durations[e]]
    IN  [cond |-> [cond EXCEPT !.onsets = s], ends |-> s]

OffsetTimes(cond) ==
    [cond |-> cond,
     ends |-> [e \in 1..Len(cond.onsets) |-> cond.onsets[e] + cond.durations[e]]]

\* The test of the for loop: to < (tmax - 1) and to == t_onset[i].
Bump(to, ton, tmax) == to < (tmax - 1) /\ to = ton

---------------------------------------------------------------------------
\* Inputs.

FrameTimes(n, step) == [j \in 1..n |-> (j - 1) * step]

Conditions(m) ==
    {[onsets |-> o, durations |-> d, values |-> v] :
        o \in [1..m -> (-(MaxEarly + 1))..MaxOnset],
        d \in [1..m -> 0..MaxDuration],
        v \in [1..m -> Amplitudes]}

NoCall == [entry |-> "None", hrf_model |-> "None", con_id |-> "None",
           oversampling |-> 0, fir_delays |-> <<>>, min_onset |-> 0,
           cond0 |-> [onsets |-> <<>>, durations |-> <<>>, values |-> <<>>],
           ft0 |-> <<>>]

NoTr == [num |-> 0, den |-> 1]

NoOrth == [run |-> 0, i |-> 0, input |-> <<>>, once |-> <<>>]

Init ==
    /\ pc = "idle"
    /\ call = NoCall
    /\ exp_condition = NoCall.cond0
    /\ frame_times = <<>>
    /\ tr = NoTr
    /\ hr_frame_times = EmptyGrid
    /\ warned = 0
    /\ regressor = <<>>
    /\ t_onset = <<>>
    /\ t_offset = <<>>
    /\ loop_i = 0
    /\ hkernel = <<>>
    /\ conv_reg = <<>>
    /\ creg = <<>>
    /\ reg_names = <<>>
    /\ steps = <<>>
    /\ result = NoResult
    /\ X = <<>>
    /\ orth = NoOrth

---------------------------------------------------------------------------
\* _sample_condition, statement by statement.

SampleLocals == <<hr_frame_times, warned, regressor, t_onset, t_offset, loop_i>>

PipeLocals == <<tr, hkernel, conv_reg, creg, reg_names>>

OrthVars == <<X, orth>>

Raise(e) ==
    /\ pc' = "raised"
    /\ result' = Raised(e)

\* A direct call of _sample_condition(exp_condition, frame_times,
\* oversampling, min_onset) with arguments of the documented kind.
CallSample ==
    /\ pc = "idle"
    /\ \E m \in EventCounts, n \in 2..MaxScans, step \in 1..MaxTR,
          os \in 1..MaxOversampling, mo \in (-MaxEarly)..0 :
         \E cond \in Conditions(m) :
            /\ exp_condition' = cond
            /\ frame_times' = FrameTimes(n, step)
            /\ call' = [NoCall EXCEPT !.entry = "_sample_condition",
                                      !.oversampling = os, !.min_onset = mo,
                                      !.cond0 = cond,
                                      !.ft0 = FrameTimes(n, step)]
    /\ pc' = "sample_grid"
    /\ UNCHANGED <<SampleLocals, PipeLocals, steps, result, OrthVars>>

\* n = frame_times.size ... hr_frame_times = np.linspace(...)
\* 1. / (n - 1) is a division of Python numbers: ZeroDivisionError if n = 1;
\* frame_times.max() of an empty array raises ValueError.
SampleGrid ==
    /\ pc = "sample_grid"
    /\ IF Len(frame_times) = 0
       THEN /\ Raise(Exc("ValueError", "_sample_condition"))
            /\ UNCHANGED hr_frame_times
       ELSE IF Len(frame_times) = 1
       THEN /\ Raise(Exc("ZeroDivisionError", "_sample_condition"))
            /\ UNCHANGED hr_frame_times
       ELSE /\ hr_frame_times' =
                   HrGrid(frame_times, call.oversampling, call.min_onset)
            /\ pc' = "sample_warn"
            /\ UNCHANGED result
    /\ UNCHANGED <<call, exp_condition, frame_times, warned, regressor,
                   t_onset, t_offset, loop_i, PipeLocals, steps, OrthVars>>

\* onsets, durations, values = ...; if (...).any(): warnings.warn(...)
SampleWarn ==
    /\ pc = "sample_warn"
    /\ IF EarlyOnset(exp_condition, frame_times, call.min_onset)
       THEN IF WarnMessageRaises
            THEN /\ Raise(Exc("TypeError", "_sample_condition"))
                 /\ UNCHANGED warned
            ELSE /\ warned' = warned + 1
                 /\ pc' = "sample_onset"
                 /\ UNCHANGED result
       ELSE /\ pc' = "sample_onset"
            /\ UNCHANGED <<warned, result>>
    /\ UNCHANGED <<call, exp_condition, frame_times, hr_frame_times,
                   regressor, t_onset, t_offset, loop_i, PipeLocals, steps,
                   OrthVars>>

\* tmax = len(hr_frame_times); regressor = zeros; t_onset = np.minimum(...)
SampleOnset ==
    /\ pc = "sample_onset"
    /\ regressor' = [k \in 0..(hr_frame_times.N - 1) |-> 0]
    /\ t_onset' = ClampAll(searchsorted(hr_frame_times, exp_condition.onsets),
                           hr_frame_times.N)
    /\ pc' = "sample_add"
    /\ UNCHANGED <<call, exp_condition, frame_times, hr_frame_times, warned,
                   t_offset, loop_i, PipeLocals, steps, result, OrthVars>>

\* regressor[t_onset] += values
SampleAdd ==
    /\ pc = "sample_add"
    /\ IF AllIndexOK(t_onset, hr_frame_times.N)
       THEN /\ regressor' = FancyAdd(regressor, t_onset, exp_condition.values, 1)
            /\ pc' = "sample_offset"
            /\ UNCHANGED result
       ELSE /\ Raise(Exc("IndexError", "_sample_condition"))
            /\ UNCHANGED regressor
    /\ UNCHANGED <<call, exp_condition, frame_times, hr_frame_times, warned,
                   t_onset, t_offset, loop_i, PipeLocals, steps, OrthVars>>

\* t_offset = np.minimum(np.searchsorted(hr_frame_times, onsets + durations),
\*                       tmax - 1)
SampleOffset ==
    /\ pc = "sample_offset"
    /\ LET r == OffsetTimes(exp_condition)
       IN  /\ exp_condition' = r.cond
           /\ t_offset' = ClampAll(searchsorted(hr_frame_times, r.ends),
                                   hr_frame_times.N)
    /\ loop_i' = 1
    /\ pc' = "sample_bump"
    /\ UNCHANGED <<call, frame_times, hr_frame_times, warned, regressor,
                   t_onset, PipeLocals, steps, result, OrthVars>>

\* for i, to in enumerate(t_offset): if ...: t_offset[i] += 1
\* One iteration, or the end of the loop.
SampleBump ==
    /\ pc = "sample_bump"
    /\ IF loop_i <= Len(t_offset)
       THEN /\ t_offset' =
                   IF Bump(t_offset[loop_i], t_onset[loop_i], hr_frame_times.N)
                   THEN [t_offset EXCEPT ![loop_i] = @ + 1]
                   ELSE t_offset
            /\ loop_i' = loop_i + 1
            /\ UNCHANGED pc
       ELSE /\ pc' = "sample_sub"
            /\ UNCHANGED <<t_offset, loop_i>>
    /\ UNCHANGED <<call, exp_condition, frame_times, hr_frame_times, warned,
                   regressor, t_onset, PipeLocals, steps, result, OrthVars>>

\* regressor[t_offset] -= values
SampleSub ==
    /\ pc = "sample_sub"
    /\ IF AllIndexOK(t_offset, hr_frame_times.N)
       THEN /\ regressor' = FancyAdd(regressor, t_offset, exp_condition.values, -1)
            /\ pc' = "sample_cumsum"
            /\ UNCHANGED result
       ELSE /\ Raise(Exc("IndexError", "_sample_condition"))
            /\ UNCHANGED regressor
    /\ UNCHANGED <<call, exp_condition, frame_times, hr_frame_times, warned,
                   t_onset, t_offset, loop_i, PipeLocals, steps, OrthVars>>

\* regressor = np.cumsum(regressor); return regressor, hr_frame_times
SampleCumsum ==
    /\ pc = "sample_cumsum"
    /\ regressor' = cumsum(regressor)
    /\ steps' = Append(steps, "sample")
    /\ pc' = IF call.entry = "compute_regressor" THEN "hrf_kernel" ELSE "sampled"
    /\ UNCHANGED <<call, exp_condition, frame_times, hr_frame_times, warned,
                   t_onset, t_offset, loop_i, PipeLocals, result, OrthVars>>

SampleStep ==
    \/ SampleGrid
    \/ SampleWarn
    \/ SampleOnset
    \/ SampleAdd
    \/ SampleOffset
    \/ SampleBump
    \/ SampleSub
    \/ SampleCumsum

NextSample == CallSample \/ SampleStep

SpecSample == Init /\ [][NextSample]_vars

---------------------------------------------------------------------------
\* _hrf_kernel and the kernel builders.

GammaModels == {"spm", "spm_time", "spm_time_dispersion", "canonical",
                "canonical with derivative"}

SupportedModels == GammaModels \cup {"fir"}

Kernel(fn, delay, len) == [fn |-> fn, delay |-> delay, len |-> len]

\* _gamma_difference_hrf: dt = tr / oversampling;
\* time_stamps = np.linspace(0, time_length, float(time_length) / dt).
\* Both quotients are of Python numbers: a zero divisor raises.  The number
\* of samples is int(time_length / dt), none if that is <= 0.
\* (with a numpy divisor the quotient is inf and nothing is raised)
GammaRaisesNumpyDivision(t, oversampling) == FALSE

GammaRaises(t, oversampling) == oversampling = 0 \/ t.num = 0

GammaLen(t, oversampling) ==
    LET num == time_length * t.den * oversampling
    IN  IF Trunc(num, t.num) <= 0 THEN 0 ELSE Trunc(num, t.num)

\* The kernels of one model, in the order _hrf_kernel lists them.
KernelFnsSwapped(hrf_model) ==
    CASE hrf_model = "spm" -> <<"spm_hrf">>
      [] hrf_model = "spm_time" -> <<"spm_hrf", "spm_time_derivative">>
      [] hrf_model = "spm_time_dispersion" ->
            <<"spm_hrf", "spm_dispersion_derivative", "spm_time_derivative">>
      [] hrf_model = "canonical" -> <<"glover_hrf">>
      [] hrf_model = "canonical with derivative" ->
            <<"glover_hrf", "glover_time_derivative">>
      [] OTHER -> <<>>

KernelFns(hrf_model) ==
    CASE hrf_model = "spm" -> <<"spm_hrf">>
      [] hrf_model = "spm_time" -> <<"spm_hrf", "spm_time_derivative">>
      [] hrf_model = "spm_time_dispersion" ->
            <<"spm_hrf", "spm_time_derivative", "spm_dispersion_derivative">>
      [] hrf_model = "canonical" -> <<"glover_hrf">>
      [] hrf_model = "canonical with derivative" ->
            <<"glover_hrf", "glover_time_derivative">>
      [] OTHER -> <<>>

\* np.hstack((np.zeros(f * oversampling), np.ones(oversampling))):
\* np.zeros and np.ones raise ValueError for a negative length.
FirRaises(oversampling, fir_delays) ==
    \E j \in 1..Len(fir_delays) :
        fir_delays[j] * oversampling < 0 \/ oversampling < 0

\* The else branch of _hrf_kernel: raise ValueError('Unknown hrf model').
UnknownModelRaisesNot(hrf_model) == FALSE

UnknownModelRaises(hrf_model) == hrf_model \notin SupportedModels

\* _hrf_kernel(hrf_model, tr, oversampling, fir_delays): the exception it
\* ends in, if any, and the list hkernel.
_hrf_kernel(hrf_model, t, oversampling, fir_delays) ==
    IF hrf_model \in GammaModels
    THEN IF GammaRaises(t, oversampling)
         THEN [exc |-> Exc("ZeroDivisionError", "_gamma_difference_hrf"),
               hkernel |-> <<>>]
         ELSE [exc |-> NoExc,
               hkernel |-> [j \in 1..Len(KernelFns(hrf_model)) |->
                              Kernel(KernelFns(hrf_model)[j], -1,
                                     GammaLen(t, oversampling))]]
    ELSE IF hrf_model = "fir"
    THEN IF FirRaises(oversampling, fir_delays)
         THEN [exc |-> Exc("ValueError", "_hrf_kernel"), hkernel |-> <<>>]
         ELSE [exc |-> NoExc,
               hkernel |-> [j \in 1..Len(fir_delays) |->
                              Kernel("fir", fir_delays[j],
                                     fir_delays[j] * oversampling + oversampling)]]
    ELSE IF UnknownModelRaises(hrf_model)
    THEN [exc |-> Exc("ValueError", "_hrf_kernel"), hkernel |-> <<>>]
    ELSE [exc |-> NoExc, hkernel |-> <<>>]

---------------------------------------------------------------------------
\* np.convolve, _resample_regressor, _orthogonalize on columns, names.

\* A row of conv_reg or a column of creg: the kernel it comes from, its
\* length, and the number of preceding columns projected out of it.
Column(h, n) == [fn |-> h.fn, delay |-> h.delay, n |-> n, orth |-> 0]

\* np.convolve(a, v) raises ValueError when a or v is empty.
ConvolveRaises(size, kernels) ==
    \E j \in 1..Len(kernels) : size = 0 \/ kernels[j].len = 0

\* np.convolve(hr_regressor, h)[:hr_regressor.size]: size + len - 1 >= size
\* samples are cut to size.
Convolve(size, kernels) ==
    [j \in 1..Len(kernels) |->
        Column(kernels[j], Min2(size + kernels[j].len - 1, size))]

\* Some requested time is below x[0] or above x[-1].
OutOfBounds(g, ft) ==
    \E j \in 1..Len(ft) : HrGreater(g, 0, ft[j]) \/ HrLess(g, g.N - 1, ft[j])

\* interp1d(hr_frame_times, hr_regressor) and f(frame_times): ValueError
\* for fewer than two samples and for a time out of bounds.
ResampleRaisesTooFewOnly(g, ft) == g.N < 2

ResampleRaises(g, ft) == g.N < 2 \/ OutOfBounds(g, ft)

\* f(frame_times).T: one column per row of conv_reg, one entry per frame.
_resample_regressor(rows, ft) ==
    [j \in 1..Len(rows) |-> [rows[j] EXCEPT !.n = Len(ft)]]

\* _orthogonalize on the columns of creg: X.size == X.shape[0] returns X
\* as it is; otherwise column i (from the second) loses its projection on
\* the columns before it.
OrthogonalizeColumns(cols) ==
    IF Len(cols) = 1 THEN cols
    ELSE [j \in 1..Len(cols) |-> [cols[j] EXCEPT !.orth = j - 1]]

Digits == <<"0", "1", "2", "3", "4", "5", "6", "7", "8", "9">>

\* "%d" % i for i >= 0
RECURSIVE IntToStr(_)
IntToStr(i) ==
    IF i < 10 THEN Digits[i + 1]
    ELSE IntToStr(i \div 10) \o Digits[(i % 10) + 1]

\* _regressor_names(con_name, hrf_model, fir_delays); a model none of the
\* branches names falls off the end and returns None.
_regressor_names(con_name, hrf_model, fir_delays) ==
    IF hrf_model = "canonical" THEN <<con_name>>
    ELSE IF hrf_model = "canonical with derivative"
    THEN <<con_name, con_name \o "_derivative">>
    ELSE IF hrf_model = "spm" THEN <<con_name>>
    ELSE IF hrf_model = "spm_time"
    THEN <<con_name, con_name \o "_derivative">>
    ELSE IF hrf_model = "spm_time_dispersion"
    THEN <<con_name, con_name \o "_derivative", con_name \o "_dispersion">>
    ELSE IF hrf_model = "fir"
    THEN [j \in 1..Len(fir_delays) |->
            con_name \o "_delay_" \o IntToStr(fir_delays[j])]
    ELSE <<>>

---------------------------------------------------------------------------
\* compute_regressor, statement by statement.

\* The conditions compute_regressor is called with here: no event, or one
\* event before the grid, at its start or past its end.
PipelineConditions ==
    {c \in Conditions(0) \cup Conditions(1) :
        \A e \in 1..Len(c.onsets) :
            /\ c.onsets[e] \in {-(MaxEarly + 1), 0, MaxOnset}
            /\ c.durations[e] \in {0, MaxDuration}
            /\ c.values[e] = 1}

FirDelays ==
    UNION {[1..len -> 0..MaxDelay] : len \in 1..2}

Call ==
    /\ pc = "idle"
    /\ \E model \in SupportedModels \cup UnknownModels,
          n \in 0..MaxScans, step \in 1..MaxTR,
          os \in (-1)..MaxOversampling, mo \in (-MaxEarly)..MaxLate,
          cond \in PipelineConditions :
         \E delays \in IF model = "fir" THEN FirDelays ELSE {<<>>} :
            /\ exp_condition' = cond
            /\ frame_times' = FrameTimes(n, step)
            /\ call' = [entry |-> "compute_regressor", hrf_model |-> model,
                        con_id |-> "cond", oversampling |-> os,
                        fir_delays |-> delays, min_onset |-> mo,
                        cond0 |-> cond, ft0 |-> FrameTimes(n, step)]
    /\ pc' = "tr"
    /\ UNCHANGED <<SampleLocals, PipeLocals, steps, result, OrthVars>>

\* tr = float(frame_times.max()) / (np.size(frame_times) - 1)
ComputeTr ==
    /\ pc = "tr"
    /\ IF Len(frame_times) = 0
       THEN /\ Raise(Exc("ValueError", "compute_regressor"))
            /\ UNCHANGED tr
       ELSE IF Len(frame_times) = 1
       THEN /\ Raise(Exc("ZeroDivisionError", "compute_regressor"))
            /\ UNCHANGED tr
       ELSE /\ tr' = [num |-> SetMax(SeqRange(frame_times)),
                      den |-> Len(frame_times) - 1]
            /\ pc' = "sample_grid"
            /\ UNCHANGED result
    /\ UNCHANGED <<call, exp_condition, frame_times, SampleLocals, hkernel,
                   conv_reg, creg, reg_names, steps, OrthVars>>

\* hkernel = _hrf_kernel(hrf_model, tr, oversampling, fir_delays)
HrfKernel ==
    /\ pc = "hrf_kernel"
    /\ LET r == _hrf_kernel(call.hrf_model, tr, call.oversampling,
                            call.fir_delays)
       IN  IF r.exc # NoExc
           THEN /\ Raise(r.exc)
                /\ UNCHANGED <<hkernel, steps>>
           ELSE /\ hkernel' = r.hkernel
                /\ steps' = Append(steps, "kernel")
                /\ pc' = "convolve"
                /\ UNCHANGED result
    /\ UNCHANGED <<call, exp_condition, frame_times, SampleLocals, tr,
                   conv_reg, creg, reg_names, OrthVars>>

\* conv_reg = np.array([np.convolve(hr_regressor, h)[:hr_regressor.size]
\*                      for h in hkernel])
ConvolveStep ==
    /\ pc = "convolve"
    /\ IF ConvolveRaises(hr_frame_times.N, hkernel)
       THEN /\ Raise(Exc("ValueError", "np.convolve"))
            /\ UNCHANGED <<conv_reg, steps>>
       ELSE /\ conv_reg' = Convolve(hr_frame_times.N, hkernel)
            /\ steps' = Append(steps, "convolve")
            /\ pc' = "resample"
            /\ UNCHANGED result
    /\ UNCHANGED <<call, exp_condition, frame_times, SampleLocals, tr,
                   hkernel, creg, reg_names, OrthVars>>

\* creg = _resample_regressor(conv_reg, hr_frame_times, frame_times)
Resample ==
    /\ pc = "resample"
    /\ IF ResampleRaises(hr_frame_times, frame_times)
       THEN /\ Raise(Exc("ValueError", "_resample_regressor"))
            /\ UNCHANGED <<creg, steps>>
       ELSE /\ creg' = _resample_regressor(conv_reg, frame_times)
            /\ steps' = Append(steps, "resample")
            /\ pc' = "orthogonalize"
            /\ UNCHANGED result
    /\ UNCHANGED <<call, exp_condition, frame_times, SampleLocals, tr,
                   hkernel, conv_reg, reg_names, OrthVars>>

\* if hrf_model != 'fir': creg = _orthogonalize(creg)
Orthogonalize ==
    /\ pc = "orthogonalize"
    /\ IF call.hrf_model # "fir"
       THEN /\ creg' = OrthogonalizeColumns(creg)
            /\ steps' = Append(steps, "orthogonalize")
       ELSE UNCHANGED <<creg, steps>>
    /\ pc' = "regressor_names"
    /\ UNCHANGED <<call, exp_condition, frame_times, SampleLocals, tr,
                   hkernel, conv_reg, reg_names, result, OrthVars>>

\* reg_names = _regressor_names(...); return creg, reg_names
RegressorNames ==
    /\ pc = "regressor_names"
    /\ reg_names' = _regressor_names(call.con_id, call.hrf_model,
                                     call.fir_delays)
    /\ steps' = Append(steps, "names")
    /\ result' = Returned(creg, reg_names')
    /\ pc' = "done"
    /\ UNCHANGED <<call, exp_condition, frame_times, SampleLocals, tr,
                   hkernel, conv_reg, creg, OrthVars>>

Next ==
    \/ Call
    \/ ComputeTr
    \/ SampleStep
    \/ HrfKernel
    \/ ConvolveStep
    \/ Resample
    \/ Orthogonalize
    \/ RegressorNames

Spec == Init /\ [][Next]_vars

---------------------------------------------------------------------------
\* _orthogonalize on a matrix of exact fractions.

RECURSIVE GCD(_, _)
GCD(a, b) == IF b = 0 THEN a ELSE GCD(b, a % b)

Abs(a) == IF a < 0 THEN -a ELSE a

\* The fraction n/d (d # 0) in lowest terms with a positive denominator.
Rat(n, d) ==
    LET g == GCD(Abs(n), Abs(d))
        sgn == IF d < 0 THEN -1 ELSE 1
    IN  <<sgn * (n \div g), sgn * (d \div g)>>

RZero == <<0, 1>>

RAdd(a, b) == Rat(a[1] * b[2] + b[1] * a[2], a[2] * b[2])

RSub(a, b) == Rat(a[1] * b[2] - b[1] * a[2], a[2] * b[2])

RMul(a, b) == Rat(a[1] * b[1], a[2] * b[2])

RDiv(a, b) == Rat(a[1] * b[2], a[2] * b[1])

RECURSIVE DotUpTo(_, _, _)
DotUpTo(u, v, k) ==
    IF k = 0 THEN RZero ELSE RAdd(DotUpTo(u, v, k - 1), RMul(u[k], v[k]))

\* np.dot of two vectors
Dot(u, v) == DotUpTo(u, v, Len(u))

VSub(u, v) == [r \in 1..Len(u) |-> RSub(u[r], v[r])]

VAdd(u, v) == [r \in 1..Len(u) |-> RAdd(u[r], v[r])]

VScale(c, u) == [r \in 1..Len(u) |-> RMul(c, u[r])]

VZero(n) == [r \in 1..n |-> RZero]

\* The component of x along b: (x.b / b.b) b, nothing along a zero vector.
Along(x, b) ==
    IF Dot(b, b) = RZero THEN VZero(Len(x))
    ELSE VScale(RDiv(Dot(x, b), Dot(b, b)), b)

\* x less its components along the pairwise orthogonal vectors bs[1..k].
RECURSIVE Residual(_, _, _)
Residual(x, bs, k) ==
    IF k = 0 THEN x ELSE VSub(Residual(x, bs, k - 1), Along(x, bs[k]))

\* An orthogonal basis of the span of A[1..k] (Gram-Schmidt; a dependent
\* column leaves a zero vector).
RECURSIVE OrthoBasis(_, _)
OrthoBasis(A, k) ==
    IF k = 0 THEN <<>>
    ELSE LET bs == OrthoBasis(A, k - 1)
         IN  Append(bs, Residual(A[k], bs, k - 1))

\* np.dot(x, np.dot(A, pinv(A))): A pinv(A) is the orthogonal projector on
\* the column space of A, so the product is the projection of x on it.
RECURSIVE RawAlong(_, _, _)
RawAlong(x, A, k) ==
    IF k = 0 THEN VZero(Len(x))
    ELSE VAdd(RawAlong(x, A, k - 1), VScale(Dot(x, A[k]), A[k]))

ProjectUnnormalised(x, A) == RawAlong(x, A, Len(A))

Project(x, A) ==
    LET bs == OrthoBasis(A, Len(A))
    IN  VSub(x, Residual(x, bs, Len(bs)))

\* X.size == X.shape[0]: X is a sequence of columns of equal length.
SingleColumn(M) == Len(M) * Len(M[1]) = Len(M[1])

\* One pass of the loop body, X[:, i] -= ..., for the 0-based column i.
OrthColumnOf(M, i) ==
    [M EXCEPT ![i + 1] = VSub(M[i + 1], Project(M[i + 1], SubSeq(M, 1, i)))]

Entries == {Rat(v, 1) : v \in 0..MaxEntry}

Matrices ==
    UNION {[1..p -> [1..n -> Entries]] : p \in 1..MaxKernels, n \in RowCounts}

\* A call X = _orthogonalize(X) on a matrix the caller owns.
CallOrth ==
    /\ pc = "idle"
    /\ \E M \in Matrices :
         /\ X' = M
         /\ orth' = [run |-> 1, i |-> 1, input |-> M, once |-> <<>>]
    /\ pc' = "orth_enter"
    /\ UNCHANGED <<call, exp_condition, frame_times, SampleLocals, PipeLocals,
                   steps, result>>

\* if X.size == X.shape[0]: return X
OrthEnter ==
    /\ pc = "orth_enter"
    /\ pc' = IF SingleColumn(X) THEN "orth_return" ELSE "orth_loop"
    /\ orth' = [orth EXCEPT !.i = 1]
    /\ UNCHANGED <<X, call, exp_condition, frame_times, SampleLocals,
                   PipeLocals, steps, result>>

\* for i in range(1, X.shape[1]): X[:, i] -= ...
OrthLoop ==
    /\ pc = "orth_loop"
    /\ IF orth.i < Len(X)
       THEN /\ X' = OrthColumnOf(X, orth.i)
            /\ orth' = [orth EXCEPT !.i = @ + 1]
            /\ UNCHANGED pc
       ELSE /\ pc' = "orth_return"
            /\ UNCHANGED <<X, orth>>
    /\ UNCHANGED <<call, exp_condition, frame_times, SampleLocals, PipeLocals,
                   steps, result>>

\* return X; the caller passes the result to _orthogonalize once more.
OrthReturn ==
    /\ pc = "orth_return"
    /\ IF orth.run = 1
       THEN /\ orth' = [orth EXCEPT !.run = 2, !.once = X]
            /\ pc' = "orth_enter"
       ELSE /\ orth' = [orth EXCEPT !.run = 3]
            /\ pc' = "orth_done"
    /\ UNCHANGED <<X, call, exp_condition, frame_times, SampleLocals,
                   PipeLocals, steps, result>>

NextOrth == CallOrth \/ OrthEnter \/ OrthLoop \/ OrthReturn

SpecOrth == Init /\ [][NextOrth]_vars

---------------------------------------------------------------------------
\* Properties of compute_regressor (specification Spec).

InCompute == call.entry = "compute_regressor"

\* The arguments other than hrf_model are of the documented kind.
WellFormedCall ==
    InCompute /\ Len(call.ft0) >= 2 /\ call.oversampling >= 1

\* The number of regressors each model is documented to give.
ExpectedColumns(c) ==
    CASE c.hrf_model \in {"spm", "canonical"} -> 1
      [] c.hrf_model \in {"spm_time", "canonical with derivative"} -> 2
      [] c.hrf_model = "spm_time_dispersion" -> 3
      [] c.hrf_model = "fir" -> Len(c.fir_delays)
      [] OTHER -> 0

FullShape(m, c) ==
    /\ Len(m) = ExpectedColumns(c)
    /\ \A k \in 1..Len(m) : m[k].n = Len(c.ft0)

\* C1: a call with an onset earlier than frame_times[0] + min_onset, and
\* otherwise well formed (a supported model, frame times inside the grid),
\* warns once and does not end in an error: every statement up to the
\* return runs, and what is returned is an n_scans x n_kernels matrix with
\* one name per column.
C1_EarlyOnsetOnlyWarns ==
    ( /\ WellFormedCall
      /\ call.hrf_model \in SupportedModels
      /\ call.min_onset <= 0
      /\ EarlyOnset(call.cond0, call.ft0, call.min_onset) )
    =>  /\ pc # "raised"
        /\ (pc # "done" => ENABLED Next)
        /\ (pc \notin {"tr", "sample_grid", "sample_warn"} => warned = 1)
        /\ (pc = "done" =>
               /\ result.status = "returned"
               /\ FullShape(result.matrix, call)
               /\ Len(result.names) = ExpectedColumns(call)
               /\ {"sample", "kernel", "convolve", "resample", "names"}
                     \subseteq SeqRange(steps))

C1_Witness ==
    /\ WellFormedCall
    /\ EarlyOnset(call.cond0, call.ft0, call.min_onset)
    /\ pc = "done"
    /\ warned = 1
    /\ FullShape(result.matrix, call)

\* The name the documentation gives the column built from a kernel.
Label(id, col) ==
    CASE col.fn \in {"spm_hrf", "glover_hrf"} -> id
      [] col.fn \in {"spm_time_derivative", "glover_time_derivative"} ->
            id \o "_derivative"
      [] col.fn = "spm_dispersion_derivative" -> id \o "_dispersion"
      [] col.fn = "fir" -> id \o "_delay_" \o IntToStr(col.delay)

\* C2: for each of the six models, the names compute_regressor returns are
\* as many as the columns of the matrix, and the k-th name is the label of
\* the kernel the k-th column was built from.
C2_NamesMatchColumns ==
    (InCompute /\ pc = "done" /\ call.hrf_model \in SupportedModels)
    =>  /\ Len(result.names) = Len(result.matrix)
        /\ Len(result.matrix) = Len(hkernel)
        /\ \A k \in 1..Len(result.matrix) :
              /\ result.matrix[k].fn = hkernel[k].fn
              /\ result.matrix[k].delay = hkernel[k].delay
              /\ result.names[k] = Label(call.con_id, result.matrix[k])

C2_Witness ==
    /\ InCompute
    /\ pc = "done"
    /\ Len(result.matrix) = 3
    /\ result.names[3] = "cond_dispersion"

InvalidParameterErrors(c) ==
    IF Len(c.ft0) = 0 THEN {Exc("ValueError", "compute_regressor")}
    ELSE IF Len(c.ft0) = 1 THEN {Exc("ZeroDivisionError", "compute_regressor")}
    ELSE IF c.oversampling = 0
    THEN IF c.hrf_model = "fir" THEN {Exc("ValueError", "np.convolve")}
         ELSE {Exc("ZeroDivisionError", "_gamma_difference_hrf")}
    ELSE {Exc("IndexError", "_sample_condition"),
          Exc("ValueError", "_hrf_kernel"),
          Exc("ValueError", "np.convolve")}

\* C4: a call with oversampling <= 0, or with fewer than two frame times,
\* ends in an error for each of the six models, 'fir' included, and returns
\* neither a matrix nor names.  The error is the one of the division (or
\* the array operation) the invalid parameter breaks.
C4_InvalidParametersFail ==
    ( /\ InCompute
      /\ call.hrf_model \in SupportedModels
      /\ (call.oversampling <= 0 \/ Len(call.ft0) < 2) )
    =>  /\ pc # "done"
        /\ result.status # "returned"
        /\ creg = <<>> /\ reg_names = <<>>
        /\ (pc # "raised" => ENABLED Next)
        /\ (pc = "raised" =>
               /\ result.exc \in InvalidParameterErrors(call)
               /\ result.matrix = <<>>
               /\ result.names = <<>>)

C4_Witness ==
    /\ InCompute
    /\ call.hrf_model = "fir"
    /\ call.oversampling = 0
    /\ Len(call.ft0) >= 2
    /\ pc = "raised"
    /\ result.exc = Exc("ValueError", "np.convolve")

GridBuilt ==
    pc \notin {"idle", "tr", "sample_grid"} /\ "sample" \in SeqRange(steps)

\* C5: when a frame time lies outside [hr_frame_times[0],
\* hr_frame_times[-1]], no resampled matrix ever exists: the call stops at
\* the resampling statement with the ValueError of the interpolation, and
\* returns nothing.
C5_OutOfBoundsFails ==
    ( /\ InCompute
      /\ GridBuilt
      /\ hr_frame_times.N >= 1
      /\ OutOfBounds(hr_frame_times, frame_times) )
    =>  /\ creg = <<>>
        /\ pc \notin {"orthogonalize", "regressor_names", "done"}
        /\ result.status # "returned"
        /\ (pc # "raised" => ENABLED Next)
        /\ (pc = "raised" /\ "convolve" \in SeqRange(steps) =>
               /\ result.exc = Exc("ValueError", "_resample_regressor")
               /\ result.matrix = <<>>)

C5_Witness ==
    /\ InCompute
    /\ call.min_onset > 0
    /\ hr_frame_times.N >= 2
    /\ OutOfBounds(hr_frame_times, frame_times)
    /\ pc = "raised"
    /\ result.exc = Exc("ValueError", "_resample_regressor")

\* C6: from the call on, the caller's onsets, durations, amplitudes and
\* frame_times hold the values they were passed with; the matrix is built
\* by the resampling and changed afterwards by the orthogonalization alone.
C6_InputsUnchanged ==
    InCompute
    =>  /\ exp_condition = call.cond0
        /\ frame_times = call.ft0
        /\ \A k \in 1..Len(conv_reg) : conv_reg[k].orth = 0
        /\ ("orthogonalize" \notin SeqRange(steps) =>
               \A k \in 1..Len(creg) : creg[k].orth = 0)

C6_Witness ==
    /\ InCompute
    /\ pc = "done"
    /\ Len(exp_condition.onsets) = 1
    /\ exp_condition.durations[1] > 0
    /\ Len(creg) >= 2
    /\ creg[2].orth = 1

---------------------------------------------------------------------------
\* Properties of _sample_condition (specification SpecSample).

tmax == hr_frame_times.N

\* _sample_condition as one function of the condition and the grid.
BumpAll(toff, ton, N) ==
    [e \in 1..Len(toff) |->
        IF Bump(toff[e], ton[e], N) THEN toff[e] + 1 ELSE toff[e]]

SampleRegressor(cond, g) ==
    LET ton  == ClampAll(searchsorted(g, cond.onsets), g.N)
        r1   == FancyAdd([k \in 0..(g.N - 1) |-> 0], ton, cond.values, 1)
        toff == BumpAll(ClampAll(searchsorted(g, OffsetTimes(cond).ends), g.N),
                        ton, g.N)
    IN  cumsum(FancyAdd(r1, toff, cond.values, -1))

Without(s, e) == [j \in 1..(Len(s) - 1) |-> IF j < e THEN s[j] ELSE s[j + 1]]

RemoveEvent(cond, e) ==
    [onsets |-> Without(cond.onsets, e),
     durations |-> Without(cond.durations, e),
     values |-> Without(cond.values, e)]

\* The events active at grid index k.
Active(k) == {e \in 1..Len(t_onset) : t_onset[e] <= k /\ k < t_offset[e]}

\* C7: the regressor _sample_condition returns is, at every grid index,
\* the sum of the amplitudes of the events active there.
C7_SumOfActive ==
    pc = "sampled"
    => \A k \in 0..(tmax - 1) :
          regressor[k] = SumOver(Active(k), exp_condition.values)

\* C7 holds of the conditions whose events have pairwise different onset
\* indices and pairwise different offset indices.
C7_DistinctIndices ==
    ( /\ pc = "sampled"
      /\ \A e, f \in 1..Len(t_onset) :
            e # f => t_onset[e] # t_onset[f] /\ t_offset[e] # t_offset[f] )
    => \A k \in 0..(tmax - 1) :
          regressor[k] = SumOver(Active(k), exp_condition.values)

OnsetSet == pc \in {"sample_add", "sample_offset", "sample_bump",
                    "sample_sub", "sample_cumsum", "sampled"}

OffsetSet == pc \in {"sample_bump", "sample_sub", "sample_cumsum", "sampled"}

BumpDone == pc \in {"sample_sub", "sample_cumsum", "sampled"}

BumpIndexRule ==
    BumpDone =>
       \A e \in 1..Len(t_onset) :
          IF t_onset[e] = tmax - 1 THEN t_offset[e] = t_onset[e]
          ELSE t_offset[e] > t_onset[e]

\* C9: after the loop every event has t_offset > t_onset unless its onset
\* index is the last grid index; then both are equal and the event
\* contributes nothing: the regressor is the one of the condition without
\* that event.
C9_BumpRule ==
    /\ BumpIndexRule
    /\ pc = "sampled" =>
          \A e \in 1..Len(t_onset) :
             t_onset[e] = tmax - 1 =>
                regressor = SampleRegressor(RemoveEvent(exp_condition, e),
                                            hr_frame_times)

\* The regressor of each reachable final state is SampleRegressor's.
SampleRegressorAgrees ==
    pc = "sampled" => regressor = SampleRegressor(exp_condition, hr_frame_times)

---------------------------------------------------------------------------
\* Properties of _orthogonalize (specification SpecOrth).

\* C10: _orthogonalize applied to its own output changes no column; the
\* first column is never changed, and a matrix of one column is returned
\* as it was given.
C10_Idempotent ==
    /\ pc \in {"orth_enter", "orth_loop", "orth_return", "orth_done"} =>
          X[1] = orth.input[1]
    /\ (pc = "orth_done" => X = orth.once)
    /\ (pc = "orth_done" /\ Len(X) = 1 => X = orth.input)

\* A second pass over a matrix the first pass did change.
C10_Witness ==
    /\ pc = "orth_done"
    /\ Len(X) = 3
    /\ X[2] # orth.input[2]
    /\ X[3] # orth.input[3]
    /\ X[3] # VZero(Len(X[3]))
    /\ X = orth.once

=============================================================================
